---- MODULE Spec2Model ----
(***************************************************************************)
(* include-cargo-toml2: the include_toml! procedural macro.                *)
(*                                                                         *)
(* One expansion reads CARGO_MANIFEST_DIR, loads <dir>/Cargo.toml, parses  *)
(* the macro input into a TomlIndex, walks the document with lookup and    *)
(* turns the selected toml::Value into tokens with translate.              *)
(***************************************************************************)
EXTENDS Integers, Sequences, FiniteSets, TLC

VARIABLES
    env,          \* build environment: CARGO_MANIFEST_DIR and the file under it
    pc,           \* position of the expansion in include_toml
    site,         \* module of the call site of the running expansion
    input,        \* macro input: the token stream between the parentheses
    parsed,       \* what TomlIndex::parse returned for input
    content,      \* the text read from the file (lib.rs:172)
    cargo_toml,   \* the loaded document (lib.rs:164)
    index,        \* the TomlIndex handed to lookup (lib.rs:165)
    result,       \* what lookup returned (lib.rs:166)
    output,       \* what the expansion produced (tokens, compile error, panic)
    stages,       \* the statements of include_toml this expansion has run
    invocations,  \* number of finished expansions
    history       \* input and outcome of every finished expansion

vars == <<env, pc, site, input, parsed, content, cargo_toml, index, result, output,
          stages, invocations, history>>

None == [tag |-> "None", val |-> ""]
Ok(x) == [tag |-> "Ok", val |-> x]
Err(msg) == [tag |-> "Err", val |-> msg]
Panic(msg) == [tag |-> "Panic", val |-> msg]

(***************************************************************************)
(* toml::Value.  The match in translate is exhaustive over seven variants. *)
(* A table is held as its entries in the iteration order of the map, with  *)
(* unique keys.  A float is held by its TOML spelling; a datetime by the   *)
(* three optional components toml::value::Datetime has.                    *)
(***************************************************************************)
VString(s) == [t |-> "String", v |-> s]
VInteger(i) == [t |-> "Integer", v |-> i]
VFloat(f) == [t |-> "Float", v |-> f]
VBoolean(b) == [t |-> "Boolean", v |-> b]
VDatetime(date, time, offset) ==
    [t |-> "Datetime", v |-> [date |-> date, time |-> time, offset |-> offset]]
VArray(a) == [t |-> "Array", v |-> a]
VTable(entries) == [t |-> "Table", v |-> entries]

NonFiniteFloats == {"inf", "-inf", "nan"}

(***************************************************************************)
(* proc_macro2 token trees, as far as translate builds them.               *)
(***************************************************************************)
LitStr(s) == [kind |-> "LitStr", text |-> s]
LitI64(i) == [kind |-> "LitI64", text |-> i]
LitF64(f) == [kind |-> "LitF64", text |-> f]
LitBool(b) == [kind |-> "LitBool", text |-> b]
Comma == [kind |-> "Punct", text |-> ","]
Group(ts) == [kind |-> "Group", text |-> ts]

\* Literal::f64_suffixed asserts that the float is finite.
f64_suffixed(f) ==
    IF f \in NonFiniteFloats THEN Panic("assertion failed: f.is_finite()")
    ELSE Ok(<<LitF64(f)>>)

\* Datetime's Display: the date, then 'T' and the time when both are there,
\* then the offset.
datetime_to_string(d) ==
    d.date \o (IF d.date # "" /\ d.time # "" THEN "T" ELSE "") \o d.time \o d.offset

\* quote! (#v,)
quote_array_item(v) == v \o <<Comma>>

\* quote! ((#key, #v))
quote_table_item(key, v) == <<Group(<<LitStr(key), Comma>> \o v)>>

\* quote! ((#ts))
quote_group(ts) == <<Group(ts)>>

RECURSIVE translate(_), translate_array(_, _), translate_table(_, _)

\* for value in a { let v = translate(value); ts.extend(quote! (#v,)); }
translate_array(a, ts) ==
    IF a = <<>> THEN Ok(ts)
    ELSE LET v == translate(Head(a))
         IN  IF v.tag # "Ok" THEN v
             ELSE translate_array(Tail(a), ts \o quote_array_item(v.val))

\* for (key, value) in t { let v = translate(value); ts.extend(quote! ((#key, #v))); }
translate_table(t, ts) ==
    IF t = <<>> THEN Ok(ts)
    ELSE LET v == translate(Head(t)[2])
         IN  IF v.tag # "Ok" THEN v
             ELSE translate_table(Tail(t), ts \o quote_table_item(Head(t)[1], v.val))

translate(value) ==
    CASE value.t = "String" -> Ok(<<LitStr(value.v)>>)
      [] value.t = "Integer" -> Ok(<<LitI64(value.v)>>)
      [] value.t = "Float" -> f64_suffixed(value.v)
      [] value.t = "Datetime" -> Ok(<<LitStr(datetime_to_string(value.v))>>)
      [] value.t = "Boolean" -> Ok(<<LitBool(value.v)>>)
      [] value.t = "Array" ->
            LET ts == translate_array(value.v, <<>>)
            IN  IF ts.tag # "Ok" THEN ts ELSE Ok(quote_group(ts.val))
      [] value.t = "Table" ->
            LET ts == translate_table(value.v, <<>>)
            IN  IF ts.tag # "Ok" THEN ts ELSE Ok(quote_group(ts.val))

(***************************************************************************)
(* The macro input.  A token is a literal (string, integer, or one of the  *)
(* kinds syn::Lit knows besides), a dot, or anything else (an identifier). *)
(* An integer literal is held by its decimal digits as written.            *)
(***************************************************************************)
LitInt(digits) == [kind |-> "LitInt", text |-> digits]
LitFloat(f) == [kind |-> "LitFloat", text |-> f]
LitChar(c) == [kind |-> "LitChar", text |-> c]
LitByteStr(s) == [kind |-> "LitByteStr", text |-> s]
Dot == [kind |-> "Punct", text |-> "."]
Ident(s) == [kind |-> "Ident", text |-> s]

LitKinds == {"LitStr", "LitInt", "LitFloat", "LitBool", "LitChar", "LitByteStr"}

\* enum Index
Index_Int(n) == [sel |-> "Int", arg |-> n]
Index_Str(s) == [sel |-> "Str", arg |-> s]

\* usize::MAX of the 64-bit host the macro runs on, in decimal digits.
UsizeMaxDigits == <<1, 8, 4, 4, 6, 7, 4, 4, 0, 7, 3, 7, 0, 9, 5, 5, 1, 6, 1, 5>>

RECURSIVE StripZeros(_)
StripZeros(digits) ==
    IF Len(digits) > 1 /\ Head(digits) = 0 THEN StripZeros(Tail(digits)) ELSE digits

RECURSIVE DigitsLeq(_, _)
\* a <= b for two digit strings of equal length
DigitsLeq(a, b) ==
    IF a = <<>> THEN TRUE
    ELSE IF Head(a) # Head(b) THEN Head(a) < Head(b)
    ELSE DigitsLeq(Tail(a), Tail(b))

\* str::parse::<usize>() on the digits of the literal: the number, held as its
\* digits without leading zeros, or an error when it does not fit.
parse_usize(digits) ==
    LET n == StripZeros(digits)
    IN  IF Len(n) < Len(UsizeMaxDigits)
           \/ (Len(n) = Len(UsizeMaxDigits) /\ DigitsLeq(n, UsizeMaxDigits))
        THEN Ok(n)
        ELSE Err("number too large to fit in target type")

\* input.parse::<Lit>(): the literal at the cursor, or an error that leaves
\* the cursor where it is.
parse_Lit(rest) ==
    IF rest # <<>> /\ Head(rest).kind \in LitKinds THEN Ok(Head(rest))
    ELSE Err("expected literal")

\* input.parse::<Dot>()
parse_Dot(rest) == rest # <<>> /\ Head(rest) = Dot

\* the match on the literal with a last arm that takes any literal as a key
index_of_lit_lenient(lit) ==
    CASE lit.kind = "LitInt" ->
            LET n == parse_usize(lit.text)
            IN  IF n.tag = "Ok" THEN Ok(Index_Int(n.val))
                ELSE Panic("Cannot parse literal integer")
      [] OTHER -> Ok(Index_Str(lit.text))

\* The match on the literal (lib.rs:44-53): the item to push, or the way out.
index_of_lit(lit) ==
    CASE lit.kind = "LitStr" -> Ok(Index_Str(lit.text))
      [] lit.kind = "LitInt" ->
            LET n == parse_usize(lit.text)
            IN  IF n.tag = "Ok" THEN Ok(Index_Int(n.val))
                ELSE Panic("Cannot parse literal integer")
      [] OTHER -> Err("Unsupported literal")

\* the item put in front
push_front(vec, item) == <<item>> \o vec

\* index.push(item)
push(vec, item) == Append(vec, item)

\* no literal at the cursor taken as the end of the path once there are items
no_literal_ends_path(rest, vec) ==
    IF vec # <<>> THEN [res |-> Ok(vec), rest |-> rest]
    ELSE [res |-> Err("Cannot parse index item"), rest |-> rest]

\* Err(e) => return Err(SynError::new(.., format!("Cannot parse index item: {}", e)))
no_literal(rest, vec) == [res |-> Err("Cannot parse index item"), rest |-> rest]

RECURSIVE parse_loop(_, _)
\* One turn of `while another_one`, then the rest of the loop.  The value is
\* what parse returns and the tokens it left unread.
parse_loop(rest, vec) ==
    LET lit == parse_Lit(rest)
    IN  IF lit.tag # "Ok"
        THEN no_literal(rest, vec)
        ELSE LET item == index_of_lit(lit.val)
                 after == Tail(rest)
             IN  IF item.tag # "Ok" THEN [res |-> item, rest |-> after]
                 ELSE IF parse_Dot(after)
                      THEN parse_loop(Tail(after), push(vec, item.val))
                      ELSE [res |-> Ok(push(vec, item.val)), rest |-> after]

\* <TomlIndex as Parse>::parse
TomlIndex_parse(tokens) == parse_loop(tokens, <<>>)

\* parse_macro_input!(input): syn runs TomlIndex::parse and then demands that
\* the whole input was read; an Err becomes a compile_error! expansion.
parse_macro_input(tokens) ==
    LET r == TomlIndex_parse(tokens)
    IN  IF r.res.tag = "Ok" /\ r.rest # <<>> THEN Err("unexpected token")
        ELSE r.res

(***************************************************************************)
(* Navigation.  toml[index] is Value::get followed by                      *)
(* expect("index not found"): an integer selects in an array, a string in  *)
(* a table, and everything else is no value.                               *)
(***************************************************************************)
RECURSIVE DigitsValue(_, _)
DigitsValue(digits, acc) ==
    IF digits = <<>> THEN acc ELSE DigitsValue(Tail(digits), 10 * acc + Head(digits))

\* n < len for a usize held as digits and the length of a collection
usize_lt(n, len) == Len(n) <= 9 /\ DigitsValue(n, 0) < len

\* get with the array counted from one
get_from_one(value, item) ==
    CASE item.sel = "Int" /\ value.t = "Array" /\ DigitsValue(item.arg, 0) >= 1
            /\ usize_lt(item.arg, Len(value.v) + 1) ->
            Ok(value.v[DigitsValue(item.arg, 0)])
      [] item.sel = "Str" /\ value.t = "Table"
            /\ (\E i \in 1..Len(value.v) : value.v[i][1] = item.arg) ->
            Ok(value.v[CHOOSE i \in 1..Len(value.v) : value.v[i][1] = item.arg][2])
      [] OTHER -> None

\* Value::get
get(value, item) ==
    CASE item.sel = "Int" /\ value.t = "Array" /\ usize_lt(item.arg, Len(value.v)) ->
            Ok(value.v[DigitsValue(item.arg, 0) + 1])
      [] item.sel = "Str" /\ value.t = "Table"
            /\ (\E i \in 1..Len(value.v) : value.v[i][1] = item.arg) ->
            Ok(value.v[CHOOSE i \in 1..Len(value.v) : value.v[i][1] = item.arg][2])
      [] OTHER -> None

\* toml[index] as a map that answers a miss with an empty value
index_value_or_empty(value, item) ==
    LET r == get(value, item)
    IN  IF r.tag = "Ok" THEN r ELSE Ok(VString(""))

\* toml[index]
index_value(value, item) ==
    LET r == get(value, item)
    IN  IF r.tag = "Ok" THEN r ELSE Panic("index not found")

RECURSIVE lookup(_, _)
\* for item in index.0 { toml = toml[item].clone(); } toml
lookup(items, toml) ==
    IF items = <<>> THEN Ok(toml)
    ELSE LET next == index_value(toml, Head(items))
         IN  IF next.tag # "Ok" THEN next ELSE lookup(Tail(items), next.val)

(***************************************************************************)
(* Documents.  The two of the unit tests and the crate's own manifest as   *)
(* the doc comment of include_toml shows it.  Tables list their entries in *)
(* key order, the order of toml's map.                                     *)
(***************************************************************************)
DocVersion ==
    VTable(<< <<"package", VTable(<< <<"edition", VString("2021")>>,
                                     <<"version", VString("0.1.0")>> >>)>> >>)

DocCustom ==
    VTable(<< <<"package",
                VTable(<< <<"edition", VString("2021")>>,
                          <<"metadata",
                            VTable(<< <<"deb",
                                        VTable(<< <<"revision", VInteger(4)>> >>)>> >>)>> >>)>> >>)

DocManifest ==
    VTable(<< <<"lib", VTable(<< <<"proc-macro", VBoolean(TRUE)>> >>)>>,
              <<"package",
                VTable(<< <<"keywords",
                            VArray(<<VString("macro"), VString("version"),
                                     VString("Cargo-toml"), VString("compile-time"),
                                     VString("parse")>>)>>,
                          <<"name", VString("include-cargo-toml2")>>,
                          <<"version", VString("0.3.1")>> >>)>> >>)

Docs == {DocVersion, DocCustom, DocManifest}

\* The texts a Cargo.toml can hold here: one per document, and one that is
\* not TOML.
Contents == {"version", "custom", "manifest", "garbage"}

\* content.parse::<Value>()
from_str(text) ==
    CASE text = "version" -> Ok(DocVersion)
      [] text = "custom" -> Ok(DocCustom)
      [] text = "manifest" -> Ok(DocManifest)
      [] OTHER -> Err("expected an equals, found eof")

(***************************************************************************)
(* The build environment.  CARGO_MANIFEST_DIR is unset or names the crate  *)
(* directory; the only Cargo.toml there is lies directly in the crate      *)
(* directory, or there is none.                                            *)
(***************************************************************************)
CrateDir == "crate"
Sites == {"crate/src", "crate/tests/submodule"}

Envs ==
    {[dir |-> None, file |-> None]}
    \cup {[dir |-> Ok(CrateDir), file |-> f] : f \in {None} \cup {Ok(c) : c \in Contents}}

\* the directory above the one that holds the source file of a call site
SiteParent(s) == IF s = "crate/src" THEN "crate" ELSE "crate/tests"

\* the manifest looked for one directory above the call site
cargo_toml_path_by_site(dir) == <<SiteParent(site), "Cargo.toml">>

\* Path::new(&dir).join("Cargo.toml")
cargo_toml_path(dir) == <<dir, "Cargo.toml">>

\* read_to_string(path)
read_to_string(path) ==
    IF path = <<CrateDir, "Cargo.toml">> /\ env.file.tag = "Ok" THEN env.file
    ELSE Err("No such file or directory")

(***************************************************************************)
(* Bounds and the inputs drawn within them.                                *)
(***************************************************************************)
MaxTokens == 4
MaxPathLen == 4
MaxLen == 2
MaxInvocations == 3

SeqsUpTo(S, n) == UNION {[1..m -> S] : m \in 0..n}

UsizeOverflowDigits == <<1, 8, 4, 4, 6, 7, 4, 4, 0, 7, 3, 7, 0, 9, 5, 5, 1, 6, 1, 6>>

Alphabet ==
    {LitStr("package"), LitStr("version"), LitInt(<<2>>), LitInt(<<0, 2>>),
     LitInt(UsizeMaxDigits), LitInt(UsizeOverflowDigits), LitFloat("1.5"),
     LitBool(TRUE), LitChar("a"), LitByteStr("ab"), Dot, Ident("package")}

\* "package"."version", "package"."keywords".2, "lib"."proc-macro",
\* "package"."metadata"."deb"."revision", "nonexistent", ."package"."name",
\* "package"."name". and 1.5
MacroInputs ==
    {<<LitStr("package"), Dot, LitStr("version")>>,
     <<LitStr("package"), Dot, LitStr("keywords"), Dot, LitInt(<<2>>)>>,
     <<LitStr("lib"), Dot, LitStr("proc-macro")>>,
     <<LitStr("package"), Dot, LitStr("metadata"), Dot, LitStr("deb"), Dot,
       LitStr("revision")>>,
     <<LitStr("nonexistent")>>,
     <<Dot, LitStr("package"), Dot, LitStr("name")>>,
     <<LitStr("package"), Dot, LitStr("name"), Dot>>,
     <<LitFloat("1.5")>>}

TokenStreams == SeqsUpTo(Alphabet, MaxTokens) \cup MacroInputs

Steps ==
    {Index_Str("package"), Index_Str("version"), Index_Str("metadata"),
     Index_Str("deb"), Index_Str("revision"), Index_Str("keywords"),
     Index_Str("nonexistent"), Index_Int(<<2>>), Index_Int(<<5>>)}

Paths == SeqsUpTo(Steps, MaxPathLen)

Scalars ==
    {VString("0.1.0"), VString(""), VInteger(4), VInteger(-1), VFloat("1.5"),
     VFloat("inf"), VFloat("-inf"), VFloat("nan"), VBoolean(TRUE), VBoolean(FALSE),
     VDatetime("1979-05-27", "07:32:00", "Z"), VDatetime("1979-05-27", "", "")}

Inner ==
    {VArray(<<>>), VTable(<<>>),
     VArray(<<VString("macro"), VInteger(4), VBoolean(TRUE)>>),
     VTable(<< <<"deb", VTable(<< <<"revision", VInteger(4)>> >>)>>,
               <<"opt", VArray(<<VFloat("nan")>>)>> >>)}

Elems == Scalars \cup Inner

TableKeys == <<"edition", "metadata", "name", "version">>

\* the ways to pick n keys of TableKeys, in the order of the map
KeyPicks(n) ==
    {ks \in [1..n -> 1..Len(TableKeys)] : \A i \in 1..n, j \in 1..n : i < j => ks[i] < ks[j]}

Arrays == {VArray(a) : a \in SeqsUpTo(Elems, MaxLen)}

Tables ==
    UNION {{VTable([i \in 1..n |-> <<TableKeys[ks[i]], vs[i]>>]) :
                ks \in KeyPicks(n), vs \in [1..n -> Elems]} : n \in 0..MaxLen}

Values == Elems \cup Arrays \cup Tables

(***************************************************************************)
(* include_toml, statement by statement.                                   *)
(***************************************************************************)
\* the statements with the macro input parsed before the document is loaded
next_stage_index_first(stage) ==
    CASE stage = "var" -> "index"
      [] stage = "index" -> "read"
      [] stage = "read" -> "toml"
      [] stage = "toml" -> "lookup"
      [] stage = "lookup" -> "translate"
      [] stage = "translate" -> "done"

\* the statement that follows a statement that succeeded (lib.rs:161-168)
next_stage(stage) ==
    CASE stage = "var" -> "read"
      [] stage = "read" -> "toml"
      [] stage = "toml" -> "index"
      [] stage = "index" -> "lookup"
      [] stage = "lookup" -> "translate"
      [] stage = "translate" -> "done"

Idle ==
    /\ pc = "idle"
    /\ site = "" /\ input = <<>>
    /\ parsed = None /\ content = None /\ cargo_toml = None
    /\ index = None /\ result = None /\ output = None
    /\ stages = <<>>

\* the compiler expands one include_toml!(...) written in some module
Invoke(ts, s) ==
    /\ pc = "idle"
    /\ invocations < MaxInvocations
    /\ pc' = "var"
    /\ input' = ts
    /\ site' = s
    /\ UNCHANGED <<env, parsed, content, cargo_toml, index, result, output, stages,
                   invocations, history>>

\* var("CARGO_MANIFEST_DIR").expect(..)
ReadManifestDir ==
    /\ pc = "var"
    /\ stages' = Append(stages, "var")
    /\ IF env.dir.tag = "Ok"
       THEN pc' = next_stage("var") /\ UNCHANGED output
       ELSE /\ pc' = "done"
            /\ output' = Panic("Environment variable CARGO_MANIFEST_DIR not set!")
    /\ UNCHANGED <<env, site, input, parsed, content, cargo_toml, index, result,
                   invocations, history>>

\* read_to_string(path).expect(..) in parse
ReadCargoToml ==
    /\ pc = "read"
    /\ stages' = Append(stages, "read")
    /\ content' = read_to_string(cargo_toml_path(env.dir.val))
    /\ IF content'.tag = "Ok"
       THEN pc' = next_stage("read") /\ UNCHANGED output
       ELSE pc' = "done" /\ output' = Panic("Cannot read Cargo.toml")
    /\ UNCHANGED <<env, site, input, parsed, cargo_toml, index, result,
                   invocations, history>>

\* content.parse::<Value>().expect(..) in parse
ParseCargoToml ==
    /\ pc = "toml"
    /\ stages' = Append(stages, "toml")
    /\ cargo_toml' = from_str(content.val)
    /\ IF cargo_toml'.tag = "Ok"
       THEN pc' = next_stage("toml") /\ UNCHANGED output
       ELSE pc' = "done" /\ output' = Panic("Cannot parse Cargo.toml to json")
    /\ UNCHANGED <<env, site, input, parsed, content, index, result,
                   invocations, history>>

\* let index: TomlIndex = parse_macro_input!(input);
ParseIndex ==
    /\ pc = "index"
    /\ stages' = Append(stages, "index")
    /\ parsed' = TomlIndex_parse(input).res
    /\ index' = parse_macro_input(input)
    /\ IF index'.tag = "Ok"
       THEN pc' = next_stage("index") /\ UNCHANGED output
       ELSE pc' = "done" /\ output' = index'
    /\ UNCHANGED <<env, site, input, content, cargo_toml, result,
                   invocations, history>>

\* let result = lookup(index, cargo_toml);
Lookup ==
    /\ pc = "lookup"
    /\ stages' = Append(stages, "lookup")
    /\ result' = lookup(index.val, cargo_toml.val)
    /\ IF result'.tag = "Ok"
       THEN pc' = next_stage("lookup") /\ UNCHANGED output
       ELSE pc' = "done" /\ output' = result'
    /\ UNCHANGED <<env, site, input, parsed, content, cargo_toml, index,
                   invocations, history>>

\* translate(result).into()
Translate ==
    /\ pc = "translate"
    /\ stages' = Append(stages, "translate")
    /\ output' = translate(result.val)
    /\ pc' = next_stage("translate")
    /\ UNCHANGED <<env, site, input, parsed, content, cargo_toml, index, result,
                   invocations, history>>

\* The expansion is over: everything it built is dropped.
Return ==
    /\ pc = "done"
    /\ history' = history \cup {[input |-> input, site |-> site, outcome |-> output]}
    /\ invocations' = invocations + 1
    /\ pc' = "idle"
    /\ site' = "" /\ input' = <<>>
    /\ parsed' = None /\ content' = None /\ cargo_toml' = None
    /\ index' = None /\ result' = None /\ output' = None
    /\ stages' = <<>>
    /\ UNCHANGED env

Init ==
    /\ env \in Envs
    /\ Idle
    /\ invocations = 0
    /\ history = {}

Next ==
    \/ \E ts \in MacroInputs, s \in Sites : Invoke(ts, s)
    \/ ReadManifestDir
    \/ ReadCargoToml
    \/ ParseCargoToml
    \/ ParseIndex
    \/ Lookup
    \/ Translate
    \/ Return

Spec == Init /\ [][Next]_vars

(***************************************************************************)
(* The three functions on their own, each on every input within the        *)
(* bounds.                                                                 *)
(***************************************************************************)
Standalone ==
    /\ env = [dir |-> None, file |-> None]
    /\ site = "crate/src"
    /\ stages = <<>>
    /\ output = None
    /\ invocations = 0
    /\ history = {}

InitParse ==
    /\ Standalone
    /\ pc = "index"
    /\ input \in TokenStreams
    /\ parsed = None /\ content = None /\ cargo_toml = None
    /\ index = None /\ result = None

SpecParse == InitParse /\ [][ParseIndex]_vars

InitLookup ==
    /\ Standalone
    /\ pc = "lookup"
    /\ input = <<>> /\ parsed = None /\ content = None
    /\ cargo_toml \in {Ok(d) : d \in Docs}
    /\ index \in {Ok(p) : p \in Paths}
    /\ result = None

SpecLookup == InitLookup /\ [][Lookup]_vars

InitTranslate ==
    /\ Standalone
    /\ pc = "translate"
    /\ input = <<>> /\ parsed = None /\ content = None
    /\ cargo_toml = None /\ index = None
    /\ result \in {Ok(v) : v \in Values}

SpecTranslate == InitTranslate /\ [][Translate]_vars

(***************************************************************************)
(* What the claims speak of, stated apart from the code above.             *)
(***************************************************************************)
RECURSIVE SplitCommas(_, _, _)
\* The elements of a parenthesised grouping: the runs of tokens between its
\* top-level commas; a comma after the last element adds none.
SplitCommas(ts, cur, acc) ==
    IF ts = <<>> THEN (IF cur = <<>> THEN acc ELSE Append(acc, cur))
    ELSE IF Head(ts) = Comma THEN SplitCommas(Tail(ts), <<>>, Append(acc, cur))
    ELSE SplitCommas(Tail(ts), Append(cur, Head(ts)), acc)

Elements(group) == SplitCommas(group.text, <<>>, <<>>)

IsTuple(out) == out.tag = "Ok" /\ Len(out.val) = 1 /\ out.val[1].kind = "Group"

Translated == pc = "done" /\ stages = <<"translate">>

\* C3: the translation of a table is one parenthesised grouping with one
\* element per entry, the i-th element being the pair (key literal,
\* translation of the value), the pairs separated like the elements of an array.
\* Stated for the tables translate returns for, so that what refutes it is
\* the grouping itself and not the panic of C4 on a value inside.
C3_TableOnePairPerEntry ==
    (Translated /\ result.val.t = "Table" /\ output.tag = "Ok") =>
        /\ IsTuple(output)
        /\ LET t == result.val.v
               elems == Elements(output.val[1])
           IN  /\ Len(elems) = Len(t)
               /\ \A i \in 1..Len(t) :
                    /\ translate(t[i][2]).tag = "Ok"
                    /\ elems[i] = <<Group(<<LitStr(t[i][1]), Comma>>
                                          \o translate(t[i][2]).val)>>

\* C4: translate returns a literal expression for every value, non-finite
\* floats and nested arrays and tables included; it never aborts.
C4_TranslateTotal ==
    Translated => output.tag = "Ok"

\* C5: the translation of an array is one parenthesised grouping with
\* len(A) elements, the i-th being the translation of A[i].
C5_ArrayElementwise ==
    (Translated /\ result.val.t = "Array") =>
        /\ IsTuple(output)
        /\ LET a == result.val.v
               elems == Elements(output.val[1])
           IN  /\ Len(elems) = Len(a)
               /\ \A i \in 1..Len(a) :
                    /\ translate(a[i]).tag = "Ok"
                    /\ elems[i] = translate(a[i]).val

\* Not a claim: apart from the panic of C4, arrays do come out element by element.
ArrayElementwiseWhenReturned ==
    (Translated /\ result.val.t = "Array" /\ output.tag = "Ok") => C5_ArrayElementwise

\* One step on a value: does it select something, and what.
StepResolves(v, step) ==
    \/ /\ step.sel = "Str" /\ v.t = "Table"
       /\ \E i \in 1..Len(v.v) : v.v[i][1] = step.arg
    \/ /\ step.sel = "Int" /\ v.t = "Array"
       /\ Len(step.arg) <= 9 /\ DigitsValue(step.arg, 0) < Len(v.v)

Selected(v, step) ==
    IF step.sel = "Str"
    THEN (CHOOSE e \in {v.v[i] : i \in 1..Len(v.v)} : e[1] = step.arg)[2]
    ELSE v.v[DigitsValue(step.arg, 0) + 1]

RECURSIVE Reach(_, _)
\* The sub-value of D that the steps of P lead to, taken from the last step
\* back; None when some step selects nothing.
Reach(P, D) ==
    IF P = <<>> THEN Ok(D)
    ELSE LET before == Reach(SubSeq(P, 1, Len(P) - 1), D)
             last == P[Len(P)]
         IN  IF before.tag = "Ok" /\ StepResolves(before.val, last)
             THEN Ok(Selected(before.val, last))
             ELSE None

LookedUp == stages = <<"lookup">>

\* C1 as claimed: a step that selects nothing does not abort lookup, which
\* still returns a value.
C1_SoftFailure ==
    (LookedUp /\ Reach(index.val, cargo_toml.val).tag # "Ok") => result.tag = "Ok"

\* C1 as the code has it: a step that selects nothing makes lookup panic with
\* "index not found"; the expansion ends there and no value comes back.
C1_MissPanics ==
    (LookedUp /\ Reach(index.val, cargo_toml.val).tag # "Ok") =>
        /\ result = Panic("index not found")
        /\ pc = "done"
        /\ output = result

\* a miss after a step that did select something
C1_Witness ==
    /\ LookedUp
    /\ Len(index.val) >= 2
    /\ Reach(SubSeq(index.val, 1, 1), cargo_toml.val).tag = "Ok"
    /\ Reach(index.val, cargo_toml.val).tag # "Ok"
    /\ result.tag = "Panic"

\* C2: when every step selects something, lookup returns the sub-value the
\* steps lead to from the root, left to right; the two unit tests are cases.
C2_LookupReaches ==
    LookedUp =>
        /\ Reach(index.val, cargo_toml.val).tag = "Ok" =>
                result = Reach(index.val, cargo_toml.val)
        /\ (cargo_toml.val = DocVersion
            /\ index.val = <<Index_Str("package"), Index_Str("version")>>) =>
                result = Ok(VString("0.1.0"))
        /\ (cargo_toml.val = DocCustom
            /\ index.val = <<Index_Str("package"), Index_Str("metadata"),
                             Index_Str("deb"), Index_Str("revision")>>) =>
                result = Ok(VInteger(4))

\* "package"."keywords".2 on the manifest
C2_Witness ==
    /\ LookedUp
    /\ cargo_toml.val = DocManifest
    /\ index.val = <<Index_Str("package"), Index_Str("keywords"), Index_Int(<<2>>)>>
    /\ result = Ok(VString("Cargo-toml"))

\* a literal the parser turns into a step
Supported(tok) ==
    \/ tok.kind = "LitStr"
    \/ tok.kind = "LitInt" /\ parse_usize(tok.text).tag = "Ok"

\* lit . lit . ... . lit with every literal supported
Dotted(ts) ==
    /\ Len(ts) % 2 = 1
    /\ \A i \in 1..Len(ts) :
         IF i % 2 = 1 THEN Supported(ts[i]) ELSE ts[i] = Dot

\* lit . lit . ... lit . : supported literals, a dot after each one
StepsEachWithDot(ts) ==
    /\ Len(ts) % 2 = 0
    /\ \A i \in 1..Len(ts) :
         IF i % 2 = 1 THEN Supported(ts[i]) ELSE ts[i] = Dot

StepOf(tok) ==
    IF tok.kind = "LitStr" THEN Index_Str(tok.text)
    ELSE Index_Int(parse_usize(tok.text).val)

ExpectedPath(ts) == [i \in 1..((Len(ts) + 1) \div 2) |-> StepOf(ts[2 * i - 1])]

IndexParsed == stages = <<"index">>

\* C6: lit . lit . ... . lit of string and fitting integer literals parses
\* into one step per literal, in the order of the tokens, KeyIndex for a
\* string and IntegerIndex for an integer; a returned path is never empty.
C6_ParseDottedLiterals ==
    IndexParsed =>
        /\ Dotted(input) =>
              /\ parsed = Ok(ExpectedPath(input))
              /\ Len(parsed.val) = (Len(input) + 1) \div 2
              /\ index = parsed
        /\ parsed.tag = "Ok" => parsed.val # <<>>

\* "package"."keywords".2
C6_Witness ==
    /\ IndexParsed
    /\ input = <<LitStr("package"), Dot, LitStr("keywords"), Dot, LitInt(<<2>>)>>
    /\ parsed = Ok(<<Index_Str("package"), Index_Str("keywords"), Index_Int(<<2>>)>>)

\* a dot at the start, a dot right after a dot, or a dot at the end
MisplacedDot(ts) ==
    /\ ts # <<>>
    /\ \/ ts[1] = Dot
       \/ ts[Len(ts)] = Dot
       \/ \E i \in 1..(Len(ts) - 1) : ts[i] = Dot /\ ts[i + 1] = Dot

\* a doubled or final dot that comes right after lit . lit . ... . lit
DotAfterDottedPrefix(ts) ==
    \E n \in 1..(Len(ts) - 1) :
        /\ Dotted(SubSeq(ts, 1, n))
        /\ ts[n + 1] = Dot
        /\ (n + 1 = Len(ts) \/ ts[n + 2] = Dot)

UnsupportedKinds == {"LitFloat", "LitBool", "LitChar", "LitByteStr"}

\* a literal of another kind where a step is due, after valid steps
UnsupportedAt(ts, n) ==
    /\ n \in 1..Len(ts)
    /\ StepsEachWithDot(SubSeq(ts, 1, n - 1))
    /\ ts[n].kind \in UnsupportedKinds

\* C8: a float, boolean, char or byte-string literal where a step is due
\* makes TomlIndex::parse fail with "Unsupported literal", whatever valid
\* steps precede it and whatever tokens follow it; no path comes back.
C8_UnsupportedLiteral ==
    (IndexParsed /\ \E n \in 1..Len(input) : UnsupportedAt(input, n)) =>
        /\ parsed = Err("Unsupported literal")
        /\ index = parsed

\* a valid step, then a boolean, then more tokens
C8_Witness ==
    /\ IndexParsed
    /\ UnsupportedAt(input, 3)
    /\ Len(input) > 3
    /\ parsed = Err("Unsupported literal")

\* C9: two expansions of the same input against the same environment end the
\* same way, whatever module they are written in and whatever ran besides.
C9_Deterministic ==
    /\ \A h1 \in history, h2 \in history :
          h1.input = h2.input => h1.outcome = h2.outcome
    /\ pc = "done" =>
          \A h \in history : h.input = input => h.outcome = output

\* the same input expanded in two modules, with another expansion besides
C9_Witness ==
    /\ Cardinality(history) = 3
    /\ \E h1 \in history, h2 \in history :
          /\ h1.input = h2.input
          /\ h1.site # h2.site
          /\ h1.outcome.tag = "Ok"
          /\ h2.outcome.tag = "Ok"

StageOrder == <<"var", "read", "toml", "index", "lookup", "translate">>

IsPrefix(s, t) == Len(s) <= Len(t) /\ \A i \in 1..Len(s) : s[i] = t[i]

Ran(stage) == \E i \in 1..Len(stages) : stages[i] = stage

Loadable ==
    /\ env.dir.tag = "Ok"
    /\ env.file.tag = "Ok"
    /\ from_str(env.file.val).tag = "Ok"

LoaderFailures ==
    {Panic("Environment variable CARGO_MANIFEST_DIR not set!"),
     Panic("Cannot read Cargo.toml"),
     Panic("Cannot parse Cargo.toml to json")}

\* C10: the statements run in the order variable, file, TOML, index path,
\* lookup, translate, each only after the one before succeeded; a document
\* that cannot be loaded ends the expansion with the loader's failure before
\* the index path is looked at; an index-path error is reported only with
\* the document loaded; tokens are emitted only when every statement succeeded.
C10_StageOrder ==
    /\ IsPrefix(stages, StageOrder)
    /\ Ran("read") => env.dir.tag = "Ok"
    /\ Ran("toml") => content.tag = "Ok"
    /\ Ran("index") => cargo_toml.tag = "Ok"
    /\ Ran("lookup") => index.tag = "Ok"
    /\ Ran("translate") => result.tag = "Ok"
    /\ (pc = "done" /\ ~Loadable) => (output \in LoaderFailures /\ ~Ran("index"))
    /\ (pc = "done" /\ output.tag = "Err") => (cargo_toml.tag = "Ok" /\ Loadable)
    /\ (pc = "done" /\ output.tag = "Ok") => stages = StageOrder
    /\ (pc = "done" /\ stages # StageOrder) => output.tag \in {"Err", "Panic"}

\* a file that is not TOML and a path that begins with a dot
C10_Witness ==
    /\ pc = "done"
    /\ env.file = Ok("garbage")
    /\ input = <<Dot, LitStr("package"), Dot, LitStr("name")>>
    /\ output = Panic("Cannot parse Cargo.toml to json")

====
